---- MODULE Spec2Model ----
(***************************************************************************)
(* Machine monitoring dashboard: the datastore tables, their row-level     *)
(* security policies and foreign keys (supabase/migrations), and the       *)
(* client handlers that read and write them (src/components).              *)
(*                                                                         *)
(* Every datastore request is one action.  The request is made by a        *)
(* caller `uid`: a signed-in identity (database role "authenticated",     *)
(* auth.uid() = uid) or the anonymous caller (database role "anon").      *)
(* The variable `last` is the request and its response: which statement   *)
(* ran, for whom, whether a row was written, and the rows a read returned. *)
(***************************************************************************)
EXTENDS Integers, Sequences, FiniteSets, TLC

VARIABLES profiles, departments, department_leaders, machines,
          machine_operators, status_history, status_types, clock, last,
          session, client, auth_users

tables == <<profiles, departments, department_leaders, machines,
            machine_operators, status_history, status_types>>
vars == <<profiles, departments, department_leaders, machines,
          machine_operators, status_history, status_types, clock, last,
          session, client, auth_users>>

(* ------------------------------ domains -------------------------------- *)

\* Identities of the authentication provider; u1 is the first user.
Users == {"u1", "u2"}
\* The caller without a session.
Anon == "anon"
Callers == Users \cup {Anon}
Roles == {"admin", "team_leader", "operator"}
\* Department ids; d1 is a seeded sample department.
DeptIds == {"d1", "d2"}
\* Machine ids, ordered as their machine_code; 1 is a seeded sample machine.
MachineIds == {1, 2}
\* SQL NULL.
NULL == "null"
\* The all-zero uuid the client filters on to get an empty result.
ZeroId == 0
\* Number of status_history rows ever inserted in a run.
MaxClock == 2

(* ------------------------- SQL helper semantics ------------------------ *)

\* SQL `a = b`: never true when either side is NULL.
SqlEq(a, b) == a # NULL /\ b # NULL /\ a = b

\* The database role the request runs as: "authenticated" with the session
\* of a signed-up identity.
DbRole(uid) == IF uid \in auth_users THEN "authenticated" ELSE "anon"

\* auth.uid(): the caller's identity, NULL without a session.
AuthUid(uid) == IF uid \in auth_users THEN uid ELSE NULL

\* EXISTS (SELECT 1 FROM profiles WHERE profiles.id = auth.uid() AND profiles.role = r)
ProfileRoleIs(uid, r) ==
  \E p \in profiles : SqlEq(p.id, AuthUid(uid)) /\ p.role = r

\* EXISTS (SELECT 1 FROM department_leaders WHERE user_id = auth.uid()
\*         AND department_id = <dept>)
LeadsDepartment(uid, dept) ==
  \E dl \in department_leaders :
     SqlEq(dl.user_id, AuthUid(uid)) /\ SqlEq(dl.department_id, dept)

\* EXISTS (SELECT 1 FROM machine_operators WHERE user_id = auth.uid()
\*         AND machine_id = <machine>)
OperatesMachine(uid, mid) ==
  \E mo \in machine_operators :
     SqlEq(mo.user_id, AuthUid(uid)) /\ mo.machine_id = mid

(* --------------------- row-level security policies --------------------- *)
(* One operator per CREATE POLICY: its TO role and its USING / WITH CHECK  *)
(* expression.  A table with row-level security enabled admits a statement *)
(* on a row iff some policy for that statement passes.                     *)

\* profiles: "Users can view all profiles" (SELECT)
UsersCanViewAllProfiles(uid, row) == DbRole(uid) = "authenticated"

\* profiles: "Users can update own profile", USING
UsersCanUpdateOwnProfileUsing(uid, row) ==
  DbRole(uid) = "authenticated" /\ SqlEq(AuthUid(uid), row.id)

\* profiles: "Users can update own profile", WITH CHECK; the sub-select reads
\* the caller's stored role.
UsersCanUpdateOwnProfileCheck(uid, new) ==
  /\ DbRole(uid) = "authenticated"
  /\ SqlEq(AuthUid(uid), new.id)
  /\ \E p \in profiles : SqlEq(p.id, AuthUid(uid)) /\ SqlEq(new.role, p.role)

\* profiles: "Users can insert own profile", WITH CHECK
UsersCanInsertOwnProfile(uid, new) ==
  DbRole(uid) = "authenticated" /\ SqlEq(AuthUid(uid), new.id)

\* departments: "All users can view departments" (SELECT)
AllUsersCanViewDepartments(uid, row) == DbRole(uid) = "authenticated"

\* departments: "Admins can insert departments"
AdminsCanInsertDepartments(uid, new) ==
  DbRole(uid) = "authenticated" /\ ProfileRoleIs(uid, "admin")

\* departments: "Admins can update departments" (USING and WITH CHECK alike)
AdminsCanUpdateDepartments(uid, row) ==
  DbRole(uid) = "authenticated" /\ ProfileRoleIs(uid, "admin")

\* departments: "Admins can delete departments"
AdminsCanDeleteDepartments(uid, row) ==
  DbRole(uid) = "authenticated" /\ ProfileRoleIs(uid, "admin")

\* department_leaders: "All users can view department leaders" (SELECT)
AllUsersCanViewDepartmentLeaders(uid, row) == DbRole(uid) = "authenticated"

\* The policy with the role list of the machine_operators policy.
AdminsAndTeamLeadersCanManageDepartmentLeaders(uid, row) ==
  /\ DbRole(uid) = "authenticated"
  /\ \E p \in profiles :
        SqlEq(p.id, AuthUid(uid)) /\ p.role \in {"admin", "team_leader"}

\* department_leaders: "Admins can manage department leaders" (FOR ALL,
\* USING and WITH CHECK alike)
AdminsCanManageDepartmentLeaders(uid, row) ==
  DbRole(uid) = "authenticated" /\ ProfileRoleIs(uid, "admin")

\* machine_operators: "All users can view machine operators" (SELECT)
AllUsersCanViewMachineOperators(uid, row) == DbRole(uid) = "authenticated"

\* machine_operators: "Admins and team leaders can manage machine operators"
\* (FOR ALL, USING and WITH CHECK alike)
AdminsAndTeamLeadersCanManageMachineOperators(uid, row) ==
  /\ DbRole(uid) = "authenticated"
  /\ \E p \in profiles :
        SqlEq(p.id, AuthUid(uid)) /\ p.role \in {"admin", "team_leader"}

\* machines: "Operators can view assigned machines" (SELECT)
OperatorsCanViewAssignedMachines(uid, row) ==
  /\ DbRole(uid) = "authenticated"
  /\ \/ ProfileRoleIs(uid, "admin")
     \/ LeadsDepartment(uid, row.department_id)
     \/ OperatesMachine(uid, row.id)

\* The insert policy without the department in its department_leaders
\* sub-select.
LeadersOfAnyDepartmentCanInsertMachines(uid, new) ==
  /\ DbRole(uid) = "authenticated"
  /\ \/ ProfileRoleIs(uid, "admin")
     \/ /\ ProfileRoleIs(uid, "team_leader")
        /\ \E dl \in department_leaders : SqlEq(dl.user_id, AuthUid(uid))

\* machines: "Admins and team leaders can insert machines"
AdminsAndTeamLeadersCanInsertMachines(uid, new) ==
  /\ DbRole(uid) = "authenticated"
  /\ \/ ProfileRoleIs(uid, "admin")
     \/ /\ ProfileRoleIs(uid, "team_leader")
        /\ LeadsDepartment(uid, new.department_id)

\* The update policy without its machine_operators sub-select.
AdminsAndLeadersCanUpdateMachines(uid, row) ==
  /\ DbRole(uid) = "authenticated"
  /\ \/ ProfileRoleIs(uid, "admin")
     \/ LeadsDepartment(uid, row.department_id)

\* machines: "Users can update machines based on role" (USING and WITH CHECK
\* are the same expression, over the stored and the new row)
UsersCanUpdateMachinesBasedOnRole(uid, row) ==
  /\ DbRole(uid) = "authenticated"
  /\ \/ ProfileRoleIs(uid, "admin")
     \/ LeadsDepartment(uid, row.department_id)
     \/ OperatesMachine(uid, row.id)

\* The delete policy with the expression of the update policy.
UsersCanDeleteMachinesBasedOnRole(uid, row) ==
  /\ DbRole(uid) = "authenticated"
  /\ \/ ProfileRoleIs(uid, "admin")
     \/ LeadsDepartment(uid, row.department_id)
     \/ OperatesMachine(uid, row.id)

\* The delete policy created without its TO clause and profile check.
AnyoneCanDeleteMachines(uid, row) == TRUE

\* machines: "Admins can delete machines"
AdminsCanDeleteMachines(uid, row) ==
  DbRole(uid) = "authenticated" /\ ProfileRoleIs(uid, "admin")

\* status_history: "All users can view status history" (SELECT)
AllUsersCanViewStatusHistory(uid, row) == DbRole(uid) = "authenticated"

\* status_history: "Admins and operators can insert status history"
AdminsAndOperatorsCanInsertStatusHistory(uid, new) ==
  /\ DbRole(uid) = "authenticated"
  /\ SqlEq(AuthUid(uid), new.changed_by)
  /\ \E p \in profiles :
        SqlEq(p.id, AuthUid(uid)) /\ p.role \in {"admin", "operator"}

\* status_types: "All users can view active status types" (SELECT)
AllUsersCanViewActiveStatusTypes(uid, row) ==
  DbRole(uid) = "authenticated" /\ row.is_active = TRUE

\* status_types: "Admins can view all status types" (SELECT)
AdminsCanViewAllStatusTypes(uid, row) ==
  DbRole(uid) = "authenticated" /\ ProfileRoleIs(uid, "admin")

\* status_types: "Admins can insert status types"
AdminsCanInsertStatusTypes(uid, new) ==
  DbRole(uid) = "authenticated" /\ ProfileRoleIs(uid, "admin")

\* status_types: "Admins can update status types" (USING and WITH CHECK alike)
AdminsCanUpdateStatusTypes(uid, row) ==
  DbRole(uid) = "authenticated" /\ ProfileRoleIs(uid, "admin")

\* The delete policy without its is_default condition.
AdminsCanDeleteAnyStatusTypes(uid, row) ==
  DbRole(uid) = "authenticated" /\ ProfileRoleIs(uid, "admin")

\* status_types: "Admins can delete status types"
AdminsCanDeleteStatusTypes(uid, row) ==
  /\ DbRole(uid) = "authenticated"
  /\ ProfileRoleIs(uid, "admin")
  /\ row.is_default = FALSE

\* "Anyone can view machines" / "... departments" / "... status types" /
\* "... status history" (SELECT, TO anon)
AnyoneCanView(uid, row) == DbRole(uid) = "anon"

(* ------------------------- what a SELECT returns ----------------------- *)

\* SELECT * FROM machines, as the caller sees it.
SelectMachines(uid) ==
  {m \in machines : \/ OperatorsCanViewAssignedMachines(uid, m)
                    \/ AnyoneCanView(uid, m)}

\* SELECT * FROM status_history, as the caller sees it.
SelectStatusHistory(uid) ==
  {h \in status_history : \/ AllUsersCanViewStatusHistory(uid, h)
                          \/ AnyoneCanView(uid, h)}

\* SELECT * FROM departments, as the caller sees it.
SelectDepartments(uid) ==
  {d \in departments : \/ AllUsersCanViewDepartments(uid, d)
                       \/ AnyoneCanView(uid, d)}

\* SELECT * FROM department_leaders, as the caller sees it.
SelectDepartmentLeaders(uid) ==
  {dl \in department_leaders : AllUsersCanViewDepartmentLeaders(uid, dl)}

\* SELECT * FROM machine_operators, as the caller sees it.
SelectMachineOperators(uid) ==
  {mo \in machine_operators : AllUsersCanViewMachineOperators(uid, mo)}

\* SELECT * FROM status_types, as the caller sees it.
SelectStatusTypes(uid) ==
  {st \in status_types : \/ AllUsersCanViewActiveStatusTypes(uid, st)
                         \/ AdminsCanViewAllStatusTypes(uid, st)
                         \/ AnyoneCanView(uid, st)}

\* SELECT * FROM profiles, as the caller sees it.
SelectProfiles(uid) ==
  {p \in profiles : UsersCanViewAllProfiles(uid, p)}

(* ------------------------------ ordering ------------------------------- *)

RECURSIVE OrderByCode(_)
\* .order('machine_code'): ascending.
OrderByCode(rows) ==
  IF rows = {} THEN <<>>
  ELSE LET first == CHOOSE m \in rows : \A o \in rows : m.id <= o.id
       IN  <<first>> \o OrderByCode(rows \ {first})

RECURSIVE OrderByChangedAtAsc(_)
\* The same query with { ascending: true }.
OrderByChangedAtAsc(rows) ==
  IF rows = {} THEN <<>>
  ELSE LET first == CHOOSE h \in rows : \A o \in rows : h.changed_at <= o.changed_at
       IN  <<first>> \o OrderByChangedAtAsc(rows \ {first})

RECURSIVE OrderByChangedAtDesc(_)
\* .order('changed_at', { ascending: false })
OrderByChangedAtDesc(rows) ==
  IF rows = {} THEN <<>>
  ELSE LET first == CHOOSE h \in rows : \A o \in rows : h.changed_at >= o.changed_at
       IN  <<first>> \o OrderByChangedAtDesc(rows \ {first})

(* --------------------------- client sessions --------------------------- *)

\* useAuth().user: the signed-in identity, null without a session.
SessionUser(uid) == IF uid \in auth_users THEN uid ELSE NULL

\* useAuth().profile?.role: the role of the caller's profiles row, undefined
\* (NULL here) when there is no session or no profile.
SessionRole(uid) ==
  IF \E p \in SelectProfiles(uid) : p.id = uid
    THEN (CHOOSE p \in SelectProfiles(uid) : p.id = uid).role
    ELSE NULL

(* ----------------------------- client reads ---------------------------- *)

\* query.in('machine_id', ids) / query.eq('machine_id', id)
FilterIn(ids) == [all |-> FALSE, ids |-> ids]

\* The query without a machine_id filter.
NoFilter == [all |-> TRUE, ids |-> {}]

\* loadHistory without its zero-uuid fallbacks: an empty id list leaves the
\* query unfiltered.
LoadHistoryFilterUnguarded(uid) ==
  IF SessionUser(uid) # NULL /\ SessionRole(uid) = "operator" THEN
    LET machineIds == {a.machine_id : a \in
                         {mo \in SelectMachineOperators(uid) : mo.user_id = uid}}
    IN  IF Cardinality(machineIds) > 0 THEN FilterIn(machineIds) ELSE NoFilter
  ELSE IF SessionUser(uid) # NULL /\ SessionRole(uid) = "team_leader" THEN
    LET deptIds == {d.department_id : d \in
                      {dl \in SelectDepartmentLeaders(uid) : dl.user_id = uid}}
        machineIds == {m.id : m \in
                         {x \in SelectMachines(uid) : x.department_id \in deptIds}}
    IN  IF Cardinality(machineIds) > 0 THEN FilterIn(machineIds) ELSE NoFilter
  ELSE NoFilter

\* The machine_id filter HistoryPage.loadHistory puts on its query when the
\* page was rendered with profile?.role = role.
LoadHistoryFilterAs(uid, role) ==
  IF SessionUser(uid) # NULL /\ role = "operator" THEN
    LET machineIds == {a.machine_id : a \in
                         {mo \in SelectMachineOperators(uid) : mo.user_id = uid}}
    IN  IF Cardinality(machineIds) > 0
          THEN FilterIn(machineIds) ELSE FilterIn({ZeroId})
  ELSE IF SessionUser(uid) # NULL /\ role = "team_leader" THEN
    LET deptIds == {d.department_id : d \in
                      {dl \in SelectDepartmentLeaders(uid) : dl.user_id = uid}}
    IN  IF Cardinality(deptIds) > 0 THEN
          LET machineIds == {m.id : m \in
                               {x \in SelectMachines(uid) : x.department_id \in deptIds}}
          IN  IF Cardinality(machineIds) > 0
                THEN FilterIn(machineIds) ELSE FilterIn({ZeroId})
        ELSE FilterIn({ZeroId})
  ELSE NoFilter

\* The filter of a page rendered with the caller's stored role.
LoadHistoryFilter(uid) == LoadHistoryFilterAs(uid, SessionRole(uid))

\* HistoryPage.loadHistory: the rows it hands to setHistory.
LoadHistoryRows(uid) ==
  LET filter == LoadHistoryFilter(uid)
      historyData == IF filter.all
                       THEN SelectStatusHistory(uid)
                       ELSE {h \in SelectStatusHistory(uid) : h.machine_id \in filter.ids}
  IN  OrderByChangedAtDesc(historyData)

\* HistoryPage.loadHistory of a page rendered with profile?.role = role.
LoadHistoryRowsAs(uid, role) ==
  LET filter == LoadHistoryFilterAs(uid, role)
      historyData == IF filter.all
                       THEN SelectStatusHistory(uid)
                       ELSE {h \in SelectStatusHistory(uid) : h.machine_id \in filter.ids}
  IN  OrderByChangedAtDesc(historyData)

\* MachineManagement.loadData: the rows it hands to setMachines.
LoadDataMachines(uid) ==
  IF SessionRole(uid) = "team_leader" THEN
    LET deptIds == {d.department_id : d \in
                      {dl \in SelectDepartmentLeaders(uid) : dl.user_id = uid}}
    IN  IF Cardinality(deptIds) > 0
          THEN OrderByCode({m \in SelectMachines(uid) : m.department_id \in deptIds})
          ELSE OrderByCode({m \in SelectMachines(uid) : m.id = ZeroId})
  ELSE OrderByCode(SelectMachines(uid))

\* MachineOverview.loadMachines: the rows it hands to setMachines.
LoadMachinesRows(uid) == OrderByCode(SelectMachines(uid))

\* StatusHistory.loadHistory (the per-machine panel), its first query; its
\* .limit(20) is above MaxClock, the number of rows the table ever holds.
LoadMachineHistoryRows(uid, machineId) ==
  OrderByChangedAtDesc({h \in SelectStatusHistory(uid) : h.machine_id = machineId})

(* ------------------------- request / response -------------------------- *)

\* machine_id / department_id: the machine and department the statement names
\* (ZeroId / NULL when it names none); ok: a row was written; rows: the rows
\* a read returned.
Request(op, uid, ok, machine_id, department_id, rows) ==
  [op |-> op, uid |-> uid, ok |-> ok, machine_id |-> machine_id,
   department_id |-> department_id, rows |-> rows]

\* A request on status_types also names the status type it is about.
StatusTypeRequest(op, uid, ok, name) ==
  [name |-> name] @@ Request(op, uid, ok, ZeroId, NULL, <<>>)

LoadHistory(uid) ==
  /\ last' = Request("HistoryPage.loadHistory", uid, TRUE, ZeroId, NULL,
                     LoadHistoryRows(uid))
  /\ UNCHANGED <<tables, clock>>

LoadData(uid) ==
  /\ last' = Request("MachineManagement.loadData", uid, TRUE, ZeroId, NULL,
                     LoadDataMachines(uid))
  /\ UNCHANGED <<tables, clock>>

LoadMachines(uid) ==
  /\ last' = Request("MachineOverview.loadMachines", uid, TRUE, ZeroId, NULL,
                     LoadMachinesRows(uid))
  /\ UNCHANGED <<tables, clock>>

LoadMachineHistory(uid, machineId) ==
  /\ last' = Request("StatusHistory.loadHistory", uid, TRUE, machineId, NULL,
                     LoadMachineHistoryRows(uid, machineId))
  /\ UNCHANGED <<tables, clock>>

(* ------------------------------ profiles ------------------------------- *)

\* INSERT INTO profiles (id, role): primary key, id REFERENCES auth.users,
\* role check constraint, "Users can insert own profile".
ProfilesInsert(uid, new) ==
  LET ok == /\ UsersCanInsertOwnProfile(uid, new)
            /\ new.id \in auth_users
            /\ new.role \in Roles
            /\ ~ \E p \in profiles : p.id = new.id
  IN  /\ profiles' = IF ok THEN profiles \cup {new} ELSE profiles
      /\ last' = Request("profiles.insert", uid, ok, ZeroId, NULL, <<>>)
      /\ UNCHANGED <<departments, department_leaders, machines, machine_operators,
                     status_history, status_types, clock>>

\* UPDATE profiles SET role = <role> WHERE id = <id>
\* (UserManagement.handleRoleChange): "Users can update own profile".
ProfilesUpdate(uid, id, role) ==
  LET old == {p \in profiles : /\ p.id = id
                               /\ UsersCanUpdateOwnProfileUsing(uid, p)}
      new == {[p EXCEPT !.role = role] : p \in old}
      ok  == /\ old # {}
             /\ role \in Roles
             /\ \A n \in new : UsersCanUpdateOwnProfileCheck(uid, n)
  IN  /\ profiles' = IF ok THEN (profiles \ old) \cup new ELSE profiles
      /\ last' = Request("profiles.update", uid, ok, ZeroId, NULL, <<>>)
      /\ UNCHANGED <<departments, department_leaders, machines, machine_operators,
                     status_history, status_types, clock>>

\* DELETE FROM profiles WHERE id = <id>: the table has no DELETE policy.
ProfilesDelete(uid, id) ==
  /\ last' = Request("profiles.delete", uid, FALSE, ZeroId, NULL, <<>>)
  /\ UNCHANGED <<tables, clock>>

(* ----------------------------- departments ----------------------------- *)

\* INSERT INTO departments (DepartmentManagement.handleAddDepartment):
\* unique name, "Admins can insert departments".
DepartmentsInsert(uid, new) ==
  LET ok == /\ AdminsCanInsertDepartments(uid, new)
            /\ ~ \E d \in departments : d.id = new.id
  IN  /\ departments' = IF ok THEN departments \cup {new} ELSE departments
      /\ last' = Request("departments.insert", uid, ok, ZeroId, new.id, <<>>)
      /\ UNCHANGED <<profiles, department_leaders, machines, machine_operators,
                     status_history, status_types, clock>>

\* UPDATE departments SET description = <description> WHERE id = <id>:
\* "Admins can update departments".
DepartmentsUpdate(uid, id, description) ==
  LET old == {d \in departments : /\ d.id = id
                                  /\ AdminsCanUpdateDepartments(uid, d)}
      new == {[d EXCEPT !.description = description] : d \in old}
      ok  == old # {} /\ \A n \in new : AdminsCanUpdateDepartments(uid, n)
  IN  /\ departments' = IF ok THEN (departments \ old) \cup new ELSE departments
      /\ last' = Request("departments.update", uid, ok, ZeroId, id, <<>>)
      /\ UNCHANGED <<profiles, department_leaders, machines, machine_operators,
                     status_history, status_types, clock>>

\* The delete with machines.department_id left without its foreign key.
DepartmentsDeleteUnreferenced(uid, id) ==
  LET old == {d \in departments : /\ d.id = id
                                  /\ AdminsCanDeleteDepartments(uid, d)}
      ok  == old # {}
  IN  /\ departments' = IF ok THEN departments \ old ELSE departments
      /\ department_leaders' =
           IF ok THEN {dl \in department_leaders : dl.department_id # id}
                 ELSE department_leaders
      /\ last' = Request("departments.delete", uid, ok, ZeroId, id, <<>>)
      /\ UNCHANGED <<profiles, machines, machine_operators, status_history,
                     status_types, clock>>

\* DELETE FROM departments WHERE id = <id>
\* (DepartmentManagement.handleDeleteDepartment): "Admins can delete
\* departments"; machines.department_id REFERENCES departments(id) with no
\* ON DELETE action, so a referenced department cannot be deleted;
\* department_leaders.department_id is ON DELETE CASCADE.
DepartmentsDelete(uid, id) ==
  LET old == {d \in departments : /\ d.id = id
                                  /\ AdminsCanDeleteDepartments(uid, d)}
      ok  == old # {} /\ ~ \E m \in machines : m.department_id = id
  IN  /\ departments' = IF ok THEN departments \ old ELSE departments
      /\ department_leaders' =
           IF ok THEN {dl \in department_leaders : dl.department_id # id}
                 ELSE department_leaders
      /\ last' = Request("departments.delete", uid, ok, ZeroId, id, <<>>)
      /\ UNCHANGED <<profiles, machines, machine_operators, status_history,
                     status_types, clock>>

(* -------------------------- department_leaders ------------------------- *)

\* INSERT INTO department_leaders (department_id, user_id): foreign keys,
\* UNIQUE(department_id, user_id), "Admins can manage department leaders".
DepartmentLeadersInsert(uid, new) ==
  LET ok == /\ AdminsCanManageDepartmentLeaders(uid, new)
            /\ \E d \in departments : d.id = new.department_id
            /\ \E p \in profiles : p.id = new.user_id
            /\ new \notin department_leaders
  IN  /\ department_leaders' =
           IF ok THEN department_leaders \cup {new} ELSE department_leaders
      /\ last' = Request("department_leaders.insert", uid, ok, ZeroId,
                         new.department_id, <<>>)
      /\ UNCHANGED <<profiles, departments, machines, machine_operators,
                     status_history, status_types, clock>>

\* UPDATE department_leaders SET user_id = <user_id> WHERE row = <row>.
DepartmentLeadersUpdate(uid, row, user_id) ==
  LET old == {dl \in department_leaders :
                /\ dl = row
                /\ AdminsCanManageDepartmentLeaders(uid, dl)}
      new == {[dl EXCEPT !.user_id = user_id] : dl \in old}
      ok  == /\ old # {}
             /\ \A n \in new : AdminsCanManageDepartmentLeaders(uid, n)
             /\ \E p \in profiles : p.id = user_id
             /\ new \cap (department_leaders \ old) = {}
  IN  /\ department_leaders' =
           IF ok THEN (department_leaders \ old) \cup new ELSE department_leaders
      /\ last' = Request("department_leaders.update", uid, ok, ZeroId,
                         row.department_id, <<>>)
      /\ UNCHANGED <<profiles, departments, machines, machine_operators,
                     status_history, status_types, clock>>

\* DELETE FROM department_leaders WHERE row = <row>.
DepartmentLeadersDelete(uid, row) ==
  LET old == {dl \in department_leaders :
                /\ dl = row
                /\ AdminsCanManageDepartmentLeaders(uid, dl)}
      ok  == old # {}
  IN  /\ department_leaders' = IF ok THEN department_leaders \ old
                                     ELSE department_leaders
      /\ last' = Request("department_leaders.delete", uid, ok, ZeroId,
                         row.department_id, <<>>)
      /\ UNCHANGED <<profiles, departments, machines, machine_operators,
                     status_history, status_types, clock>>

(* ------------------------------ machines ------------------------------- *)

\* INSERT INTO machines (MachineManagement.handleSubmit): unique
\* machine_code, department foreign key, "Admins and team leaders can
\* insert machines".
MachinesInsert(uid, new) ==
  LET ok == /\ AdminsAndTeamLeadersCanInsertMachines(uid, new)
            /\ ~ \E m \in machines : m.id = new.id
            /\ \/ new.department_id = NULL
               \/ \E d \in departments : d.id = new.department_id
  IN  /\ machines' = IF ok THEN machines \cup {new} ELSE machines
      /\ last' = Request("machines.insert", uid, ok, new.id, new.department_id, <<>>)
      /\ UNCHANGED <<profiles, departments, department_leaders, machine_operators,
                     status_history, status_types, clock>>

\* UPDATE machines SET department_id = .., current_status = .. WHERE id = <id>:
\* "Users can update machines based on role", USING on the stored row (which
\* the caller must also be able to SELECT) and WITH CHECK on the new row.
MachinesUpdate(uid, id, department_id, current_status) ==
  LET old == {m \in SelectMachines(uid) :
                /\ m.id = id
                /\ UsersCanUpdateMachinesBasedOnRole(uid, m)}
      new == {[m EXCEPT !.department_id = department_id,
                        !.current_status = current_status] : m \in old}
      ok  == /\ old # {}
             /\ \A n \in new : UsersCanUpdateMachinesBasedOnRole(uid, n)
             /\ \/ department_id = NULL
                \/ \E d \in departments : d.id = department_id
  IN  /\ machines' = IF ok THEN (machines \ old) \cup new ELSE machines
      /\ last' = Request("machines.update", uid, ok, id, department_id, <<>>)
      /\ UNCHANGED <<profiles, departments, department_leaders, machine_operators,
                     status_history, status_types, clock>>

\* The delete with status_history.machine_id lacking ON DELETE CASCADE and
\* left unchecked.
MachinesDeleteKeepingHistory(uid, id) ==
  LET old == {m \in SelectMachines(uid) :
                /\ m.id = id
                /\ AdminsCanDeleteMachines(uid, m)}
      ok  == old # {}
  IN  /\ machines' = IF ok THEN machines \ old ELSE machines
      /\ machine_operators' =
           IF ok THEN {mo \in machine_operators : mo.machine_id # id}
                 ELSE machine_operators
      /\ last' = Request("machines.delete", uid, ok, id, NULL, <<>>)
      /\ UNCHANGED <<profiles, departments, department_leaders, status_history,
                     status_types, clock>>

\* DELETE FROM machines WHERE id = <id> (MachineManagement.handleDelete):
\* "Admins can delete machines"; machine_operators.machine_id and
\* status_history.machine_id are ON DELETE CASCADE.
MachinesDelete(uid, id) ==
  LET old == {m \in SelectMachines(uid) :
                /\ m.id = id
                /\ AdminsCanDeleteMachines(uid, m)}
      ok  == old # {}
  IN  /\ machines' = IF ok THEN machines \ old ELSE machines
      /\ machine_operators' =
           IF ok THEN {mo \in machine_operators : mo.machine_id # id}
                 ELSE machine_operators
      /\ status_history' =
           IF ok THEN {h \in status_history : h.machine_id # id}
                 ELSE status_history
      /\ last' = Request("machines.delete", uid, ok, id, NULL, <<>>)
      /\ UNCHANGED <<profiles, departments, department_leaders, status_types, clock>>

(* -------------------------- machine_operators -------------------------- *)

\* INSERT INTO machine_operators (machine_id, user_id): foreign keys,
\* UNIQUE(machine_id, user_id), "Admins and team leaders can manage machine
\* operators".
MachineOperatorsInsert(uid, new) ==
  LET ok == /\ AdminsAndTeamLeadersCanManageMachineOperators(uid, new)
            /\ \E m \in machines : m.id = new.machine_id
            /\ \E p \in profiles : p.id = new.user_id
            /\ new \notin machine_operators
  IN  /\ machine_operators' =
           IF ok THEN machine_operators \cup {new} ELSE machine_operators
      /\ last' = Request("machine_operators.insert", uid, ok, new.machine_id,
                         NULL, <<>>)
      /\ UNCHANGED <<profiles, departments, department_leaders, machines,
                     status_history, status_types, clock>>

\* DELETE FROM machine_operators WHERE row = <row>.
MachineOperatorsDelete(uid, row) ==
  LET old == {mo \in machine_operators :
                /\ mo = row
                /\ AdminsAndTeamLeadersCanManageMachineOperators(uid, mo)}
      ok  == old # {}
  IN  /\ machine_operators' = IF ok THEN machine_operators \ old
                                    ELSE machine_operators
      /\ last' = Request("machine_operators.delete", uid, ok, row.machine_id,
                         NULL, <<>>)
      /\ UNCHANGED <<profiles, departments, department_leaders, machines,
                     status_history, status_types, clock>>

(* ---------------------------- status_history --------------------------- *)

\* INSERT INTO status_history (machine_id, status, previous_status,
\* changed_by); changed_at DEFAULT now(): foreign keys, "Admins and
\* operators can insert status history".  The request carries the submitted
\* row as `new`.
StatusHistoryInsert(uid, new) ==
  LET ok  == /\ AdminsAndOperatorsCanInsertStatusHistory(uid, new)
             /\ \E m \in machines : m.id = new.machine_id
             /\ \E p \in profiles : p.id = new.changed_by
      row == [new EXCEPT !.changed_at = clock + 1]
  IN  /\ ok => clock < MaxClock
      /\ status_history' = IF ok THEN status_history \cup {row} ELSE status_history
      /\ clock' = IF ok THEN clock + 1 ELSE clock
      /\ last' = [new |-> new] @@
                    Request("status_history.insert", uid, ok, new.machine_id, NULL, <<>>)
      /\ UNCHANGED <<profiles, departments, department_leaders, machines,
                     machine_operators, status_types>>

\* UPDATE status_history SET status = <status> WHERE changed_at = <changed_at>:
\* the table has no UPDATE policy.
StatusHistoryUpdate(uid, changed_at, status) ==
  /\ last' = [changed_at |-> changed_at] @@
                Request("status_history.update", uid, FALSE, ZeroId, NULL, <<>>)
  /\ UNCHANGED <<tables, clock>>

\* The table with a DELETE policy for admins.
StatusHistoryDeleteByAdmins(uid, changed_at) ==
  LET old == {h \in SelectStatusHistory(uid) :
                h.changed_at = changed_at /\ ProfileRoleIs(uid, "admin")}
  IN  /\ status_history' = status_history \ old
      /\ last' = [changed_at |-> changed_at] @@
                    Request("status_history.delete", uid, old # {}, ZeroId, NULL, <<>>)
      /\ UNCHANGED <<profiles, departments, department_leaders, machines,
                     machine_operators, status_types, clock>>

\* DELETE FROM status_history WHERE changed_at = <changed_at>: the table has
\* no DELETE policy.
StatusHistoryDelete(uid, changed_at) ==
  /\ last' = [changed_at |-> changed_at] @@
                Request("status_history.delete", uid, FALSE, ZeroId, NULL, <<>>)
  /\ UNCHANGED <<tables, clock>>

(* ----------------------------- status_types ---------------------------- *)

\* id (gen_random_uuid()) of the status type created through the page; the
\* seeded ones are 1..4, and the names of the model leave room for one more
\* row at a time.
NewStatusTypeId == 5

\* INSERT INTO status_types (StatusTypeManagement.handleSubmit, new type):
\* unique name, is_default DEFAULT false, is_active DEFAULT true, "Admins
\* can insert status types".
StatusTypesInsert(uid, name) ==
  LET new == [id |-> NewStatusTypeId, name |-> name, is_default |-> FALSE,
              is_active |-> TRUE]
      ok  == /\ AdminsCanInsertStatusTypes(uid, new)
             /\ ~ \E st \in status_types : st.name = name
  IN  /\ status_types' = IF ok THEN status_types \cup {new} ELSE status_types
      /\ last' = StatusTypeRequest("status_types.insert", uid, ok, name)
      /\ UNCHANGED <<profiles, departments, department_leaders, machines,
                     machine_operators, status_history, clock>>

\* The toggle writing the is_default column instead of is_active.
StatusTypesUpdateDefault(uid, name) ==
  LET old == {st \in SelectStatusTypes(uid) :
                /\ st.name = name
                /\ AdminsCanUpdateStatusTypes(uid, st)}
      new == {[st EXCEPT !.is_default = ~ st.is_default] : st \in old}
      ok  == old # {} /\ \A n \in new : AdminsCanUpdateStatusTypes(uid, n)
  IN  /\ status_types' = IF ok THEN (status_types \ old) \cup new ELSE status_types
      /\ last' = StatusTypeRequest("status_types.update", uid, ok, name)
      /\ UNCHANGED <<profiles, departments, department_leaders, machines,
                     machine_operators, status_history, clock>>

\* UPDATE status_types SET is_active = NOT is_active WHERE name = <name>
\* (StatusTypeManagement.handleToggleActive): "Admins can update status
\* types", on a row the caller can SELECT.
StatusTypesUpdate(uid, name) ==
  LET old == {st \in SelectStatusTypes(uid) :
                /\ st.name = name
                /\ AdminsCanUpdateStatusTypes(uid, st)}
      new == {[st EXCEPT !.is_active = ~ st.is_active] : st \in old}
      ok  == old # {} /\ \A n \in new : AdminsCanUpdateStatusTypes(uid, n)
  IN  /\ status_types' = IF ok THEN (status_types \ old) \cup new ELSE status_types
      /\ last' = StatusTypeRequest("status_types.update", uid, ok, name)
      /\ UNCHANGED <<profiles, departments, department_leaders, machines,
                     machine_operators, status_history, clock>>

\* The rename with its name followed by the status strings of machines and
\* history, as a foreign key ON UPDATE CASCADE would.
StatusTypesRenameCascading(uid, id, name) ==
  LET old == {st \in SelectStatusTypes(uid) :
                /\ st.id = id
                /\ AdminsCanUpdateStatusTypes(uid, st)}
      new == {[st EXCEPT !.name = name] : st \in old}
      ok  == /\ old # {}
             /\ \A n \in new : AdminsCanUpdateStatusTypes(uid, n)
             /\ ~ \E st \in status_types \ old : st.name = name
      Renamed(status) == IF ok /\ \E st \in old : st.name = status
                           THEN name ELSE status
  IN  /\ status_types' = IF ok THEN (status_types \ old) \cup new ELSE status_types
      /\ machines' = {[m EXCEPT !.current_status = Renamed(@)] : m \in machines}
      /\ status_history' = {[h EXCEPT !.status = Renamed(@),
                                      !.previous_status = Renamed(@)] :
                              h \in status_history}
      /\ last' = [id |-> id] @@
                    StatusTypeRequest("status_types.rename", uid, ok, name)
      /\ UNCHANGED <<profiles, departments, department_leaders,
                     machine_operators, clock>>

\* UPDATE status_types SET name = <name>, color = .. WHERE id = <id>
\* (StatusTypeManagement.handleSubmit, editing): unique name, "Admins can
\* update status types", on a row the caller can SELECT.  No table refers to
\* status_types: machines.current_status and status_history.status are text.
StatusTypesRename(uid, id, name) ==
  LET old == {st \in SelectStatusTypes(uid) :
                /\ st.id = id
                /\ AdminsCanUpdateStatusTypes(uid, st)}
      new == {[st EXCEPT !.name = name] : st \in old}
      ok  == /\ old # {}
             /\ \A n \in new : AdminsCanUpdateStatusTypes(uid, n)
             /\ ~ \E st \in status_types \ old : st.name = name
  IN  /\ status_types' = IF ok THEN (status_types \ old) \cup new ELSE status_types
      /\ last' = [id |-> id] @@
                    StatusTypeRequest("status_types.rename", uid, ok, name)
      /\ UNCHANGED <<profiles, departments, department_leaders, machines,
                     machine_operators, status_history, clock>>

\* DELETE FROM status_types WHERE name = <name>
\* (StatusTypeManagement.handleDelete's request): "Admins can delete status
\* types".
StatusTypesDelete(uid, name) ==
  LET old == {st \in SelectStatusTypes(uid) :
                /\ st.name = name
                /\ AdminsCanDeleteStatusTypes(uid, st)}
      ok  == old # {}
  IN  /\ status_types' = IF ok THEN status_types \ old ELSE status_types
      /\ last' = StatusTypeRequest("status_types.delete", uid, ok, name)
      /\ UNCHANGED <<profiles, departments, department_leaders, machines,
                     machine_operators, status_history, clock>>

\* StatusTypeManagement.handleDelete(status), status a row of the list the
\* page loaded: a default status type gets the alert and no request; for any
\* other the user confirms (and the delete request is sent) or cancels.
\* `requested` tells whether the handler sent the request.
HandleDelete(uid, status) ==
  LET Returned ==
        /\ last' = [is_default |-> status.is_default, requested |-> FALSE] @@
                      StatusTypeRequest("StatusTypeManagement.handleDelete",
                                        uid, FALSE, status.name)
        /\ UNCHANGED <<tables, clock>>
      old == {st \in SelectStatusTypes(uid) :
                /\ st.name = status.name
                /\ AdminsCanDeleteStatusTypes(uid, st)}
      ok  == old # {}
      Deleted ==
        /\ status_types' = IF ok THEN status_types \ old ELSE status_types
        /\ last' = [is_default |-> status.is_default, requested |-> TRUE] @@
                      StatusTypeRequest("StatusTypeManagement.handleDelete",
                                        uid, ok, status.name)
        /\ UNCHANGED <<profiles, departments, department_leaders, machines,
                       machine_operators, status_history, clock>>
  IN  IF status.is_default THEN Returned
      ELSE Returned \/ Deleted

(* ------------------------- initial state, steps ------------------------ *)

\* Names of status types: the seeded defaults and one custom type.
DefaultStatusTypes == {"Running", "Idle", "Fault", "Under Maintenance"}
\* The seeded status types in their display_order.
DisplayOrder == <<"Running", "Idle", "Fault", "Under Maintenance">>
\* The id of a seeded status type.
SeedId(name) == CHOOSE i \in DOMAIN DisplayOrder : DisplayOrder[i] = name
CustomStatusTypes == {"Calibration"}
\* Ids of the machines created through the application.
NewMachineIds == {2}
\* The identities the assignment requests of the model name.
Assignees == {"u2"}

\* A session with no status change under way.
NoStatusChange ==
  [pc |-> "idle", machine_id |-> ZeroId, previous_status |-> "", status |-> ""]

\* A browser session before any page is mounted: useAuth().profile not yet
\* resolved, the useState initial values of the pages ([] for every list),
\* no realtime event waiting, no request in flight.
NotMounted ==
  [profile |-> NULL, mounted |-> {}, users |-> <<>>, machines |-> <<>>,
   history |-> <<>>, events |-> 0, inflight |-> <<>>]

\* The database after the migrations ran and the first user was made admin:
\* the sample departments, sample machine 1 in d1, the default status types;
\* both identities have signed up (auth.users).
Init ==
  /\ profiles = {[id |-> "u1", role |-> "admin"]}
  /\ departments = {[id |-> d, description |-> ""] : d \in DeptIds}
  /\ department_leaders = {}
  /\ machines = {[id |-> 1, department_id |-> "d1", current_status |-> "Running"]}
  /\ machine_operators = {}
  /\ status_history = {}
  /\ status_types = {[id |-> SeedId(n), name |-> n, is_default |-> TRUE,
                       is_active |-> TRUE] : n \in DefaultStatusTypes}
  /\ clock = 0
  /\ last = Request("none", Anon, FALSE, ZeroId, NULL, <<>>)
  /\ session = [u \in Users |-> NoStatusChange]
  /\ client = [u \in Users |-> NotMounted]
  /\ auth_users = Users

\* Requests are served one at a time: `last` is the request being answered,
\* and "none" between two requests.
Idle == last.op = "none"

\* The caller has taken the response.
Done ==
  /\ ~ Idle
  /\ last' = Request("none", Anon, FALSE, ZeroId, NULL, <<>>)
  /\ UNCHANGED <<tables, clock, session, client, auth_users>>

\* The reads of the four pages, by any caller.
ReadStep ==
  /\ Idle
  /\ UNCHANGED <<session, client, auth_users>>
  /\ \E uid \in Callers :
       \/ LoadHistory(uid)
       \/ LoadData(uid)
       \/ LoadMachines(uid)
       \/ \E m \in MachineIds : LoadMachineHistory(uid, m)

ProfilesStep(callers, roles) ==
  /\ Idle
  /\ UNCHANGED <<session, client, auth_users>>
  /\ \E uid \in callers, id \in Users, role \in roles :
       \/ ProfilesInsert(uid, [id |-> id, role |-> role])
       \/ ProfilesUpdate(uid, id, role)
       \/ ProfilesDelete(uid, id)

DepartmentsStep(callers) ==
  /\ Idle
  /\ UNCHANGED <<session, client, auth_users>>
  /\ \E uid \in callers, id \in DeptIds :
       \/ DepartmentsInsert(uid, [id |-> id, description |-> ""])
       \/ DepartmentsUpdate(uid, id, "edited")
       \/ DepartmentsDelete(uid, id)

DepartmentLeadersStep(callers) ==
  /\ Idle
  /\ UNCHANGED <<session, client, auth_users>>
  /\ \E uid \in callers, d \in DeptIds, u \in Assignees :
       \/ DepartmentLeadersInsert(uid, [department_id |-> d, user_id |-> u])
       \/ \E v \in Users :
            DepartmentLeadersUpdate(uid, [department_id |-> d, user_id |-> u], v)
       \/ DepartmentLeadersDelete(uid, [department_id |-> d, user_id |-> u])

\* current_status of the stored machine, "Beklemede" if there is none.
StatusOf(id) ==
  IF \E m \in machines : m.id = id
    THEN (CHOOSE m \in machines : m.id = id).current_status
    ELSE "Beklemede"

\* New machines (a deleted sample machine is not created again), department
\* changes and deletions of any machine.
MachinesStep(callers) ==
  /\ Idle
  /\ UNCHANGED <<session, client, auth_users>>
  /\ \E uid \in callers, id \in MachineIds, d \in DeptIds \cup {NULL} :
       \/ /\ id \in NewMachineIds
          /\ MachinesInsert(uid, [id |-> id, department_id |-> d,
                                  current_status |-> "Beklemede"])
       \/ MachinesUpdate(uid, id, d, StatusOf(id))
       \/ MachinesDelete(uid, id)

MachineOperatorsStep(callers) ==
  /\ Idle
  /\ UNCHANGED <<session, client, auth_users>>
  /\ \E uid \in callers, m \in MachineIds, u \in Assignees :
       \/ MachineOperatorsInsert(uid, [machine_id |-> m, user_id |-> u])
       \/ MachineOperatorsDelete(uid, [machine_id |-> m, user_id |-> u])

StatusHistoryStep(callers, machineIds) ==
  /\ Idle
  /\ UNCHANGED <<session, client, auth_users>>
  /\ \E uid \in callers, m \in machineIds :
       \/ \E by \in {"u1"} \cup ({uid} \cap Users) :
            StatusHistoryInsert(uid, [machine_id |-> m, status |-> "Running",
                                      previous_status |-> "", changed_by |-> by,
                                      changed_at |-> 0])
       \/ \E at \in 1..MaxClock :
            \/ StatusHistoryUpdate(uid, at, "Running")
            \/ StatusHistoryDelete(uid, at)

StatusTypesStep(callers) ==
  /\ Idle
  /\ UNCHANGED <<session, client, auth_users>>
  /\ \E uid \in callers, name \in {"Running"} \cup CustomStatusTypes :
       \/ StatusTypesInsert(uid, name)
       \/ StatusTypesUpdate(uid, name)
       \/ StatusTypesDelete(uid, name)
       \/ \E status \in SelectStatusTypes(uid) :
            status.name = name /\ HandleDelete(uid, status)
       \/ \E id \in {SeedId("Running"), NewStatusTypeId} :
            StatusTypesRename(uid, id, name)

\* Names of the statuses the status statements of the model write.
StatusNames == {"Running", "Idle", "Fault"}

\* department_id of the stored machine, NULL if there is none.
DepartmentOf(id) ==
  IF \E m \in machines : m.id = id
    THEN (CHOOSE m \in machines : m.id = id).department_id
    ELSE NULL

\* UPDATE machines SET current_status = <s> WHERE id = <id>, the department
\* left as it is.
MachineStatusStep(callers, machineIds) ==
  /\ Idle
  /\ UNCHANGED <<session, client, auth_users>>
  /\ \E uid \in callers, id \in machineIds, s \in StatusNames :
       MachinesUpdate(uid, id, DepartmentOf(id), s)

\* INSERT INTO status_history with any status and previous_status, the
\* caller as changed_by.
HistoryRecordStep(callers, machineIds) ==
  /\ Idle
  /\ UNCHANGED <<session, client, auth_users>>
  /\ \E uid \in callers, m \in machineIds, s \in StatusNames,
        p \in StatusNames \cup {""} :
       StatusHistoryInsert(uid, [machine_id |-> m, status |-> s,
                                 previous_status |-> p, changed_by |-> uid,
                                 changed_at |-> 0])

\* The status a session sets in the model: the first user "Idle", the
\* others "Fault".
Target(uid) == IF uid = "u1" THEN "Idle" ELSE "Fault"

\* A status change, first request: the session reads the machine and keeps
\* its current_status as the previous status of the change. A machine the
\* caller cannot see is not offered.
BeginStatusChange(uid, machineId, status) ==
  /\ session[uid].pc = "idle"
  /\ \E m \in SelectMachines(uid) :
       /\ m.id = machineId
       /\ session' = [session EXCEPT ![uid] =
                        [pc |-> "read", machine_id |-> machineId,
                         previous_status |-> m.current_status,
                         status |-> status]]
       /\ last' = Request("StatusChange.read", uid, TRUE, machineId, NULL, <<m>>)
  /\ UNCHANGED <<tables, clock>>

\* A status change, second request: the history record is written; the
\* change is given up when the insert is rejected.
WriteHistoryRecord(uid) ==
  /\ session[uid].pc = "read"
  /\ StatusHistoryInsert(uid, [machine_id |-> session[uid].machine_id,
                               status |-> session[uid].status,
                               previous_status |-> session[uid].previous_status,
                               changed_by |-> uid, changed_at |-> 0])
  /\ session' = [session EXCEPT ![uid] =
                   IF last'.ok THEN [@ EXCEPT !.pc = "inserted"]
                               ELSE NoStatusChange]

\* A status change, third request: the machine's current_status is set.
UpdateMachineStatus(uid) ==
  /\ session[uid].pc = "inserted"
  /\ MachinesUpdate(uid, session[uid].machine_id,
                    DepartmentOf(session[uid].machine_id), session[uid].status)
  /\ session' = [session EXCEPT ![uid] = NoStatusChange]

\* The status changes of the signed-in users, one request at a time.
StatusChangeStep(machineIds) ==
  /\ Idle
  /\ UNCHANGED <<client, auth_users>>
  /\ \E uid \in Users :
       \/ \E m \in machineIds : BeginStatusChange(uid, m, Target(uid))
       \/ WriteHistoryRecord(uid)
       \/ UpdateMachineStatus(uid)

\* The mutation guards: machines, assignments and history written by every
\* caller; the catalog tables (departments, status_types) attempted by the
\* anonymous caller.
Next ==
  \/ Done
  \/ ProfilesStep(Callers, {"team_leader", "operator"})
  \/ DepartmentLeadersStep(Callers)
  \/ MachinesStep(Callers)
  \/ MachineOperatorsStep(Callers)
  \/ StatusHistoryStep(Callers, {1})
  \/ DepartmentsStep({Anon})
  \/ StatusTypesStep({Anon})

Spec == Init /\ [][Next]_vars

\* The visibility filters: the pages' reads by every caller, over every
\* database the first user (admin) can set up and the profile each identity
\* creates for itself.
NextRead ==
  \/ Done
  \/ ReadStep
  \/ ProfilesStep(Users, {"team_leader", "operator"})
  \/ DepartmentLeadersStep({"u1"})
  \/ MachinesStep({"u1"})
  \/ MachineOperatorsStep({"u1"})
  \/ StatusHistoryStep({"u1"}, MachineIds)

SpecRead == Init /\ [][NextRead]_vars

\* The admin-managed collections: departments, department leaders and status
\* types, written by every caller.
NextCatalog ==
  \/ Done
  \/ ProfilesStep(Callers, Roles)
  \/ DepartmentsStep(Callers)
  \/ DepartmentLeadersStep(Callers)
  \/ StatusTypesStep(Callers)

SpecCatalog == Init /\ [][NextCatalog]_vars

\* Machine status and history: the status updates and the history inserts
\* the policies admit, sent one statement at a time by the admin and by an
\* operator the admin assigns.
NextStatus ==
  \/ Done
  \/ ProfilesStep(Users, {"operator"})
  \/ MachineOperatorsStep({"u1"})
  \/ MachineStatusStep(Users, {1})
  \/ HistoryRecordStep(Users, {1})

SpecStatus == Init /\ [][NextStatus]_vars

\* Status changes as compound writes: the admin and an operator the admin
\* assigns (and unassigns) change the status of sample machine 1, their
\* requests interleaved.
NextChange ==
  \/ Done
  \/ ProfilesStep(Users, {"operator"})
  \/ MachineOperatorsStep({"u1"})
  \/ StatusChangeStep({1})

SpecChange == Init /\ [][NextChange]_vars

(* ----------------------------- client pages ---------------------------- *)
(* A page keeps what its last response gave it.  A load sends its query   *)
(* and the rows come back in a later step; responses of different loads   *)
(* arrive in any order.                                                    *)

\* Requests one browser session has in flight at a time.
MaxInFlight == 2

\* The identities in the order of their full_name.
NameOrder == <<"u1", "u2">>

RECURSIVE OrderByFullName(_)
\* .order('full_name')
OrderByFullName(rows) ==
  IF rows = {} THEN <<>>
  ELSE LET Position(p) == CHOOSE i \in DOMAIN NameOrder : NameOrder[i] = p.id
           first == CHOOSE p \in rows : \A o \in rows : Position(p) <= Position(o)
       IN  <<first>> \o OrderByFullName(rows \ {first})

\* UserManagement.loadUsers: the rows its query returns for a page rendered
\* with profile?.role = role.
LoadUsersRows(uid, role) ==
  OrderByFullName(IF role = "team_leader"
                    THEN {p \in SelectProfiles(uid) : p.role = "operator"}
                    ELSE SelectProfiles(uid))

\* A query of a page whose response has not arrived yet.
Fetch(page, rows) == [page |-> page, rows |-> rows]

\* The loads the effects with profile?.role among their dependencies start
\* when the role becomes `role`: HistoryPage.loadData and
\* MachineOverview.loadData. UserManagement's effect has no dependencies.
ProfileEffects(uid, role) ==
  (IF "HistoryPage" \in client[uid].mounted
     THEN <<Fetch("HistoryPage", LoadHistoryRowsAs(uid, role))>> ELSE <<>>)
  \o (IF "MachineOverview" \in client[uid].mounted
        THEN <<Fetch("MachineOverview", LoadMachinesRows(uid))>> ELSE <<>>)

\* useAuth(): the profile of the signed-in identity has been read; the pages
\* render again with it and the effects that depend on profile?.role run.
ResolveProfile(uid) ==
  /\ uid \in auth_users
  /\ client[uid].profile = NULL
  /\ SessionRole(uid) # NULL
  /\ Len(client[uid].inflight \o ProfileEffects(uid, SessionRole(uid))) <= MaxInFlight
  /\ client' = [client EXCEPT
                  ![uid].profile = SessionRole(uid),
                  ![uid].inflight = @ \o ProfileEffects(uid, SessionRole(uid))]
  /\ last' = Request("useAuth.profile", uid, TRUE, ZeroId, NULL, <<>>)
  /\ UNCHANGED <<tables, clock, auth_users>>

\* The i-th request in flight is answered: setUsers / setMachines /
\* setHistory with its rows.
Receive(uid, i) ==
  /\ i \in DOMAIN client[uid].inflight
  /\ LET f    == client[uid].inflight[i]
         rest == SubSeq(client[uid].inflight, 1, i - 1)
                   \o SubSeq(client[uid].inflight, i + 1, Len(client[uid].inflight))
     IN  /\ client' = [client EXCEPT ![uid] =
                         IF f.page = "UserManagement"
                           THEN [@ EXCEPT !.users = f.rows, !.inflight = rest]
                         ELSE IF f.page = "MachineOverview"
                           THEN [@ EXCEPT !.machines = f.rows, !.inflight = rest]
                         ELSE [@ EXCEPT !.history = f.rows, !.inflight = rest]]
         /\ last' = Request(f.page \o ".response", uid, TRUE, ZeroId, NULL, f.rows)
  /\ UNCHANGED <<tables, clock, auth_users>>

(* --------------------------- UserManagement ---------------------------- *)

\* The page is mounted: useEffect(() => { loadUsers(); }, []).
MountUserManagement(uid) ==
  /\ uid \in auth_users
  /\ "UserManagement" \notin client[uid].mounted
  /\ Len(client[uid].inflight) < MaxInFlight
  /\ LET rows == LoadUsersRows(uid, client[uid].profile)
     IN  /\ client' = [client EXCEPT
                         ![uid].mounted = @ \cup {"UserManagement"},
                         ![uid].inflight = Append(@, Fetch("UserManagement", rows))]
         /\ last' = Request("UserManagement.loadUsers", uid, TRUE, ZeroId, NULL, rows)
  /\ UNCHANGED <<tables, clock, auth_users>>

\* UserManagement.handleAddUser with the form holding identity `id` (its
\* email) and `role`.  auth.signUp fails for a registered email.  Otherwise
\* the identity is created, and the profiles insert that follows runs with
\* the session signUp left in the browser: the new identity's (signUp
\* returned a session), or still the caller's (the new identity has to
\* confirm its email first).  A rejected insert is shown as the error; the
\* identity stays.  With the new identity's session the browser is no longer
\* the caller's: its pages end with the caller's session.
HandleAddUser(uid, id, role) ==
  LET new == [id |-> id, role |-> role]
      Response(signedUp, written, as) ==
        [signed_up |-> signedUp, id |-> id, role |-> role, as |-> as] @@
          Request("UserManagement.handleAddUser", uid, written, ZeroId, NULL, <<>>)
  IN  /\ uid \in auth_users
      /\ "UserManagement" \in client[uid].mounted
      /\ IF id \in auth_users
           THEN /\ last' = Response(FALSE, FALSE, uid)
                /\ UNCHANGED <<tables, clock, client, auth_users>>
           ELSE /\ auth_users' = auth_users \cup {id}
                /\ \E as \in {uid, id} :
                     LET ok == /\ as = id
                               /\ role \in Roles
                               /\ ~ \E p \in profiles : p.id = id
                     IN  /\ profiles' = IF ok THEN profiles \cup {new} ELSE profiles
                         /\ last' = Response(TRUE, ok, as)
                         /\ client' = IF as = id
                                        THEN [client EXCEPT ![uid] = NotMounted]
                                        ELSE client
                /\ UNCHANGED <<departments, department_leaders, machines,
                               machine_operators, status_history, status_types,
                               clock>>

\* UserManagement.handleRoleChange(userId, newRole), from the select of a
\* listed user: nothing for a page rendered with role team_leader; otherwise
\* UPDATE profiles SET role = newRole WHERE id = userId under "Users can
\* update own profile", and loadUsers() unless the update raised an error
\* (an update that matches no row raises none).
HandleRoleChange(uid, userId, newRole) ==
  LET Response(requested, written) ==
        [requested |-> requested, id |-> userId, role |-> newRole] @@
          Request("UserManagement.handleRoleChange", uid, written, ZeroId, NULL, <<>>)
      old == {p \in profiles : /\ p.id = userId
                               /\ UsersCanUpdateOwnProfileUsing(uid, p)}
      new == {[p EXCEPT !.role = newRole] : p \in old}
      ok  == /\ old # {}
             /\ newRole \in Roles
             /\ \A n \in new : UsersCanUpdateOwnProfileCheck(uid, n)
      error == old # {} /\ ~ ok
  IN  /\ uid \in auth_users
      /\ "UserManagement" \in client[uid].mounted
      /\ \E i \in DOMAIN client[uid].users : client[uid].users[i].id = userId
      /\ IF client[uid].profile = "team_leader"
           THEN /\ last' = Response(FALSE, FALSE)
                /\ UNCHANGED <<tables, clock, client, auth_users>>
           ELSE /\ profiles' = IF ok THEN (profiles \ old) \cup new ELSE profiles
                /\ last' = Response(TRUE, ok)
                /\ UNCHANGED <<departments, department_leaders, machines,
                               machine_operators, status_history, status_types,
                               clock, auth_users>>
                /\ IF error
                     THEN UNCHANGED client
                     ELSE /\ Len(client[uid].inflight) < MaxInFlight
                          /\ \E role \in {client[uid].profile} :
                               client' = [client EXCEPT ![uid].inflight =
                                            Append(@, Fetch("UserManagement",
                                                            LoadUsersRows(uid, role)'))]

\* What a signed-in user does on the user-management page.
UserManagementStep(callers) ==
  /\ Idle
  /\ UNCHANGED session
  /\ \E uid \in callers :
       \/ MountUserManagement(uid)
       \/ \E id \in Users, role \in Roles :
            \/ HandleAddUser(uid, id, role)
            \/ HandleRoleChange(uid, id, role)

\* The responses and the profile the browser sessions receive.
ClientStep(callers) ==
  /\ Idle
  /\ UNCHANGED session
  /\ \E uid \in callers :
       \/ ResolveProfile(uid)
       \/ \E i \in 1..MaxInFlight : Receive(uid, i)

\* The database with the first user only: the second identity has not
\* signed up.
InitUsers ==
  /\ profiles = {[id |-> "u1", role |-> "admin"]}
  /\ departments = {[id |-> d, description |-> ""] : d \in DeptIds}
  /\ department_leaders = {}
  /\ machines = {[id |-> 1, department_id |-> "d1", current_status |-> "Running"]}
  /\ machine_operators = {}
  /\ status_history = {}
  /\ status_types = {[id |-> SeedId(n), name |-> n, is_default |-> TRUE,
                       is_active |-> TRUE] : n \in DefaultStatusTypes}
  /\ clock = 0
  /\ last = Request("none", Anon, FALSE, ZeroId, NULL, <<>>)
  /\ session = [u \in Users |-> NoStatusChange]
  /\ client = [u \in Users |-> NotMounted]
  /\ auth_users = {"u1"}

\* User management: the first user adds the second through the page; each
\* identity creates its profile if it has none, and uses the page.
NextUsers ==
  \/ Done
  \/ ProfilesStep(Users, Roles)
  \/ UserManagementStep(Users)
  \/ ClientStep(Users)

SpecUsers == InitUsers /\ [][NextUsers]_vars

(* --------------------------- MachineOverview --------------------------- *)

\* The page is mounted: loadData() sends loadMachines, and the page
\* subscribes to the 'machines-changes' channel.
MountMachineOverview(uid) ==
  /\ uid \in auth_users
  /\ "MachineOverview" \notin client[uid].mounted
  /\ Len(client[uid].inflight) < MaxInFlight
  /\ LET rows == LoadMachinesRows(uid)
     IN  /\ client' = [client EXCEPT
                         ![uid].mounted = @ \cup {"MachineOverview"},
                         ![uid].inflight = Append(@, Fetch("MachineOverview", rows))]
         /\ last' = Request("MachineOverview.loadMachines", uid, TRUE, ZeroId, NULL, rows)
  /\ UNCHANGED <<tables, clock, auth_users>>

\* The channel callback: a postgres_changes event on machines calls
\* loadMachines(); the payload of the event is not looked at.
OnMachinesChange(uid) ==
  /\ "MachineOverview" \in client[uid].mounted
  /\ client[uid].events > 0
  /\ Len(client[uid].inflight) < MaxInFlight
  /\ LET rows == LoadMachinesRows(uid)
     IN  /\ client' = [client EXCEPT
                         ![uid].events = @ - 1,
                         ![uid].inflight = Append(@, Fetch("MachineOverview", rows))]
         /\ last' = Request("MachineOverview.loadMachines", uid, TRUE, ZeroId, NULL, rows)
  /\ UNCHANGED <<tables, clock, auth_users>>

MachineOverviewStep(callers) ==
  /\ Idle
  /\ UNCHANGED session
  /\ \E uid \in callers :
       \/ MountMachineOverview(uid)
       \/ OnMachinesChange(uid)

\* UPDATE machines SET current_status = <s> WHERE id = <id>; when a row was
\* written, every subscribed page that may read the row gets an event.
MachineChangeStep(callers, machineIds) ==
  /\ Idle
  /\ UNCHANGED <<session, auth_users>>
  /\ \A u \in Users :
       client[u].events + Len(client[u].inflight) < MaxInFlight
  /\ \E uid \in callers, id \in machineIds, s \in StatusNames :
       /\ MachinesUpdate(uid, id, DepartmentOf(id), s)
       /\ client' = [u \in Users |->
                       IF /\ last'.ok
                          /\ "MachineOverview" \in client[u].mounted
                          /\ \E m \in SelectMachines(u)' : m.id = id
                         THEN [client[u] EXCEPT !.events = @ + 1]
                         ELSE client[u]]

\* The overview under realtime events: the admin changes the status of
\* sample machine 1 while the overview pages are open.
NextOverview ==
  \/ Done
  \/ MachineOverviewStep(Users)
  \/ MachineChangeStep({"u1"}, {1})
  \/ ClientStep(Users)

SpecOverview == Init /\ [][NextOverview]_vars

(* --------------------------- MachineManagement ------------------------- *)

\* MachineManagement.loadData: what it hands to setTeamLeaderDepartments; the
\* state keeps its initial [] for a role other than team_leader.
TeamLeaderDepartments(uid) ==
  IF SessionRole(uid) = "team_leader"
    THEN {d.department_id : d \in
            {dl \in SelectDepartmentLeaders(uid) : dl.user_id = uid}}
    ELSE {}

\* The form offering every department to every role.
AllDepartments(uid) == SelectDepartments(uid)

\* availableDepartments: the options of the form's required department
\* select, from the departments and teamLeaderDepartments loadData loaded.
AvailableDepartments(uid) ==
  IF SessionRole(uid) = "admin"
    THEN SelectDepartments(uid)
    ELSE {dept \in SelectDepartments(uid) : dept.id \in TeamLeaderDepartments(uid)}

\* Status types and the status strings in use: the admin writes status
\* types while machine 1 changes status and gets history records.
NextStatusTypes ==
  \/ Done
  \/ StatusTypesStep({"u1"})
  \/ MachineStatusStep({"u1"}, {1})
  \/ HistoryRecordStep({"u1"}, {1})

SpecStatusTypes == Init /\ [][NextStatusTypes]_vars

(* ------------------------------ HistoryPage ---------------------------- *)

\* The page is mounted: useEffect runs loadData(), whose loadHistory builds
\* its query from the profile of this render.
MountHistoryPage(uid) ==
  /\ uid \in auth_users
  /\ "HistoryPage" \notin client[uid].mounted
  /\ Len(client[uid].inflight) < MaxInFlight
  /\ LET rows == LoadHistoryRowsAs(uid, client[uid].profile)
     IN  /\ client' = [client EXCEPT
                         ![uid].mounted = @ \cup {"HistoryPage"},
                         ![uid].inflight = Append(@, Fetch("HistoryPage", rows))]
         /\ last' = Request("HistoryPage.loadHistory", uid, TRUE, ZeroId, NULL, rows)
  /\ UNCHANGED <<tables, clock, auth_users>>

HistoryPageStep(callers) ==
  /\ Idle
  /\ UNCHANGED session
  /\ \E uid \in callers : MountHistoryPage(uid)

\* The history page while the profile arrives: the second identity creates
\* its profile, the admin writes history records for sample machine 1, and
\* each signed-in identity opens the page before or after its profile is
\* there.
NextHistory ==
  \/ Done
  \/ ProfilesStep(Users, {"team_leader", "operator"})
  \/ StatusHistoryStep({"u1"}, {1})
  \/ HistoryPageStep(Users)
  \/ ClientStep(Users)

SpecHistory == Init /\ [][NextHistory]_vars

(* ------------------------- referential integrity ----------------------- *)

\* Every table with a foreign key written and its parents deleted: the admin
\* creates, edits and deletes departments, machines, leader and operator
\* assignments and writes history; the second identity creates its profile.
NextIntegrity ==
  \/ Done
  \/ ProfilesStep(Users, {"team_leader", "operator"})
  \/ DepartmentsStep({"u1"})
  \/ DepartmentLeadersStep({"u1"})
  \/ MachinesStep({"u1"})
  \/ MachineOperatorsStep({"u1"})
  \/ StatusHistoryStep({"u1"}, {1})

SpecIntegrity == Init /\ [][NextIntegrity]_vars

(* ------------------------------ properties ----------------------------- *)

\* uid's profile carries the role.
IsRole(uid, role) == \E p \in profiles : p.id = uid /\ p.role = role

\* uid holds a DepartmentLeaderAssignment for the department.
Leads(uid, dept) ==
  \E dl \in department_leaders : dl.user_id = uid /\ dl.department_id = dept

\* uid holds a MachineOperatorAssignment for the machine.
Assigned(uid, machineId) ==
  \E mo \in machine_operators : mo.user_id = uid /\ mo.machine_id = machineId

\* The elements of a sequence.
Range(s) == {s[i] : i \in DOMAIN s}

\* The writes, as `last.op` names them.
Writes ==
  {t \o "." \o stmt :
     t \in {"profiles", "departments", "department_leaders", "machines",
            "machine_operators", "status_history", "status_types"},
     stmt \in {"insert", "update", "delete"}}

\* C1 (as stated): an operator holding no MachineOperatorAssignment gets no
\* row from any read: not from HistoryPage.loadHistory (the client filter),
\* and not from the reads that only the SELECT policies of machines and
\* status_history filter (MachineOverview.loadMachines,
\* StatusHistory.loadHistory).
C1_UnassignedOperatorReadsNothing ==
  ( /\ last.op \in {"HistoryPage.loadHistory", "MachineOverview.loadMachines",
                    "StatusHistory.loadHistory"}
    /\ IsRole(last.uid, "operator")
    /\ ~ \E mo \in machine_operators : mo.user_id = last.uid )
  => last.rows = <<>>

C3_OperatorReadsExactlyAssignedMachines ==
  (last.op = "MachineOverview.loadMachines" /\ IsRole(last.uid, "operator"))
  => Range(last.rows) = {m \in machines : Assigned(last.uid, m.id)}

C5_AnonymousWritesRejected ==
  [][(last'.op \in Writes /\ last'.uid = Anon)
       => (~ last'.ok /\ tables' = tables)]_vars

\* C5, its case: the anonymous caller's delete of a stored machine came back
\* rejected.
C5_Witness ==
  /\ last.op = "machines.delete"
  /\ last.uid = Anon
  /\ \E m \in machines : m.id = last.machine_id
  /\ ~ last.ok

\* C6: a machine with an unused code is created iff the caller is admin, or
\* a team_leader holding a DepartmentLeaderAssignment for the new machine's
\* department; every other creation (a team_leader for a department it does
\* not lead or for no department, an operator, a caller without profile) is
\* rejected and adds no machine.
C6_MachineCreationGuard ==
  [][last'.op = "machines.insert" =>
       LET uid     == last'.uid
           dept    == last'.department_id
           allowed == \/ IsRole(uid, "admin")
                      \/ IsRole(uid, "team_leader") /\ Leads(uid, dept)
           unused  == ~ \E m \in machines : m.id = last'.machine_id
       IN  /\ unused => (last'.ok <=> allowed)
           /\ last'.ok => /\ allowed
                          /\ \E m \in machines' \ machines :
                               /\ m.id = last'.machine_id
                               /\ m.department_id = dept
                               /\ machines' = machines \cup {m}
           /\ ~ last'.ok => machines' = machines]_vars

\* C6, its case: a team_leader who leads a department asked to create a
\* machine in another one, and was rejected.
C6_Witness ==
  /\ last.op = "machines.insert"
  /\ IsRole(last.uid, "team_leader")
  /\ \E dl \in department_leaders : dl.user_id = last.uid
  /\ last.department_id \in DeptIds
  /\ ~ Leads(last.uid, last.department_id)
  /\ ~ \E m \in machines : m.id = last.machine_id
  /\ ~ last.ok

\* C7 (as stated): the update of a stored machine is accepted iff the caller
\* is admin, leads the machine's department or holds a
\* MachineOperatorAssignment for it; any other caller's update changes no
\* machine row.
C7_MachineUpdateGuardAsStated ==
  [][(last'.op = "machines.update"
        /\ \E m \in machines : m.id = last'.machine_id) =>
       LET uid     == last'.uid
           old     == CHOOSE m \in machines : m.id = last'.machine_id
           inScope == \/ IsRole(uid, "admin")
                      \/ Leads(uid, old.department_id)
                      \/ Assigned(uid, old.id)
       IN  /\ last'.ok <=> inScope
           /\ ~ inScope => machines' = machines]_vars

\* C7 (amended): the update of a stored machine is accepted iff the caller
\* is admin, or leads the department or holds a MachineOperatorAssignment of
\* the machine both as stored and as updated; every rejected update changes
\* no machine row.
C7_MachineUpdateGuard ==
  [][(last'.op = "machines.update"
        /\ \E m \in machines : m.id = last'.machine_id) =>
       LET uid      == last'.uid
           old      == CHOOSE m \in machines : m.id = last'.machine_id
           Scope(d) == \/ IsRole(uid, "admin")
                       \/ Leads(uid, d)
                       \/ Assigned(uid, old.id)
       IN  /\ last'.ok <=> (Scope(old.department_id) /\ Scope(last'.department_id))
           /\ last'.ok =>
                /\ machines' \ machines \subseteq
                     {m \in machines' : /\ m.id = old.id
                                        /\ m.department_id = last'.department_id}
                /\ machines \ machines' \subseteq {old}
           /\ ~ last'.ok => machines' = machines]_vars

\* C7, its case: a team_leader leading the machine's department, with no
\* assignment for it, asked to move it to a department it does not lead, and
\* was rejected.
C7_Witness ==
  /\ last.op = "machines.update"
  /\ IsRole(last.uid, "team_leader")
  /\ \E m \in machines : m.id = last.machine_id /\ Leads(last.uid, m.department_id)
  /\ ~ Assigned(last.uid, last.machine_id)
  /\ ~ Leads(last.uid, last.department_id)
  /\ ~ last.ok

\* C8: only an admin deletes a machine: a delete sent by anyone else is
\* rejected and removes no machine, no assignment and no history record, and
\* a machine only ever disappears in an admin's delete.
C8_OnlyAdminDeletesMachines ==
  [][/\ (last'.op = "machines.delete" /\ ~ IsRole(last'.uid, "admin"))
          => /\ ~ last'.ok
             /\ machines' = machines
             /\ machine_operators' = machine_operators
             /\ status_history' = status_history
     /\ (\E m \in machines : ~ \E n \in machines' : n.id = m.id)
          => (last'.op = "machines.delete" /\ IsRole(last'.uid, "admin"))]_vars

\* C8, its case: a team_leader who leads the machine's department and is
\* assigned to it asked to delete it, the machine having history, and was
\* rejected.
C8_Witness ==
  /\ last.op = "machines.delete"
  /\ IsRole(last.uid, "team_leader")
  /\ \E m \in machines : m.id = last.machine_id /\ Leads(last.uid, m.department_id)
  /\ Assigned(last.uid, last.machine_id)
  /\ \E h \in status_history : h.machine_id = last.machine_id
  /\ ~ last.ok

\* C9 (as stated): a MachineOperatorAssignment is created or deleted only by
\* an admin or by a team_leader who leads the department of the assignment's
\* machine.
C9_AssignmentsManagedWithinDepartment ==
  [][(last'.op \in {"machine_operators.insert", "machine_operators.delete"}
        /\ last'.ok) =>
       \/ IsRole(last'.uid, "admin")
       \/ /\ IsRole(last'.uid, "team_leader")
          /\ \E m \in machines : /\ m.id = last'.machine_id
                                 /\ Leads(last'.uid, m.department_id)]_vars

\* The writes on the admin-managed collections.
CatalogWrites ==
  {t \o "." \o stmt :
     t \in {"departments", "department_leaders", "status_types"},
     stmt \in {"insert", "update", "delete"}}

\* C10: every create, update and delete of a department, a
\* DepartmentLeaderAssignment or a status type sent by a team_leader or an
\* operator is rejected and leaves the three collections unchanged; the
\* accepted ones are an admin's.
C10_CatalogsAdminManaged ==
  [][last'.op \in CatalogWrites =>
       /\ (IsRole(last'.uid, "team_leader") \/ IsRole(last'.uid, "operator"))
            => /\ ~ last'.ok
               /\ departments' = departments
               /\ department_leaders' = department_leaders
               /\ status_types' = status_types
       /\ last'.ok => IsRole(last'.uid, "admin")]_vars

\* C10, its case: a team_leader asked to delete its own
\* DepartmentLeaderAssignment, and was rejected.
C10_Witness ==
  /\ last.op = "department_leaders.delete"
  /\ IsRole(last.uid, "team_leader")
  /\ Leads(last.uid, last.department_id)
  /\ ~ last.ok

\* C11: the delete of a status type whose is_default flag is true is
\* rejected for every caller, admin included, and leaves status_types as it
\* was: StatusTypeManagement.handleDelete sends no request for it, and a
\* delete request sent all the same removes no row.
C11_DefaultStatusTypesNotDeleted ==
  [][/\ (last'.op = "StatusTypeManagement.handleDelete" /\ last'.is_default)
          => /\ ~ last'.requested
             /\ ~ last'.ok
             /\ status_types' = status_types
     /\ (last'.op = "status_types.delete"
           /\ \E st \in status_types : st.name = last'.name /\ st.is_default)
          => /\ ~ last'.ok
             /\ status_types' = status_types]_vars

\* C11, its case: an admin's delete request for a stored default status type
\* came back rejected.
C11_Witness ==
  /\ last.op = "status_types.delete"
  /\ IsRole(last.uid, "admin")
  /\ \E st \in status_types : st.name = last.name /\ st.is_default
  /\ ~ last.ok

\* C12 (as stated): the insert of a status_history record for a stored
\* machine, with the caller as changed_by, is accepted iff the caller is
\* admin, or a team_leader leading the machine's department, or an operator
\* holding a MachineOperatorAssignment for the machine.
C12_StatusChangeGuardAsStated ==
  [][(last'.op = "status_history.insert"
        /\ last'.new.changed_by = last'.uid
        /\ \E m \in machines : m.id = last'.machine_id) =>
       LET uid == last'.uid
           m   == CHOOSE x \in machines : x.id = last'.machine_id
       IN  last'.ok <=>
             \/ IsRole(uid, "admin")
             \/ IsRole(uid, "team_leader") /\ Leads(uid, m.department_id)
             \/ IsRole(uid, "operator") /\ Assigned(uid, m.id)]_vars

C14_MachineDeleteCascades ==
  [][(last'.op = "machines.delete" /\ last'.ok) =>
       /\ machines' = {m \in machines : m.id # last'.machine_id}
       /\ machine_operators' =
            {mo \in machine_operators : mo.machine_id # last'.machine_id}
       /\ status_history' =
            {h \in status_history : h.machine_id # last'.machine_id}]_vars

\* C14, its case: sample machine 1 (never created again once deleted) has
\* just been deleted; of the two records ever inserted the first, of the
\* other machine, is left, so the second was machine 1's and went with it;
\* the other machine also keeps an assignment.
C14_Witness ==
  /\ last.op = "machines.delete"
  /\ last.ok
  /\ last.machine_id = 1
  /\ clock = 2
  /\ status_history # {}
  /\ \A h \in status_history : h.changed_at = 1 /\ h.machine_id # 1
  /\ \E mo \in machine_operators : mo.machine_id # 1

\* C15 (as stated): an admin's delete of a stored department always
\* succeeds, also when machines belong to it: afterwards the department is
\* gone, no department_leaders row references it, every machine that was in
\* it is still stored with a null department, and no machine is deleted.
C15_DepartmentDeleteSeversMachines ==
  [][(last'.op = "departments.delete"
        /\ IsRole(last'.uid, "admin")
        /\ \E d \in departments : d.id = last'.department_id) =>
       LET id == last'.department_id
       IN  /\ last'.ok
           /\ ~ \E d \in departments' : d.id = id
           /\ ~ \E dl \in department_leaders' : dl.department_id = id
           /\ machines' =
                {IF m.department_id = id
                   THEN [m EXCEPT !.department_id = NULL] ELSE m : m \in machines}]_vars

\* The newest status_history record of a machine.
NewestRecord(machineId) ==
  CHOOSE h \in status_history :
    /\ h.machine_id = machineId
    /\ \A o \in status_history :
         o.machine_id = machineId => o.changed_at <= h.changed_at

\* The status a machine is created with: that of the seed row for sample
\* machine 1, that of MachineManagement.handleSubmit for the others.
CreatedStatus(machineId) == IF machineId = 1 THEN "Running" ELSE "Beklemede"

\* C16 (as stated): in every state each machine's current_status is the
\* status of its newest status_history record, or the status the machine
\* was created with when it has no record.
C16_CurrentStatusIsNewestRecord ==
  \A m \in machines :
    IF \E h \in status_history : h.machine_id = m.id
      THEN m.current_status = NewestRecord(m.id).status
      ELSE m.current_status = CreatedStatus(m.id)

\* C17 (as stated): every accepted status_history insert carries as
\* previous_status the current_status its machine has when the insert is
\* made.
C17_PreviousStatusIsCurrentStatus ==
  [][(last'.op = "status_history.insert" /\ last'.ok) =>
       \E m \in machines : /\ m.id = last'.machine_id
                           /\ last'.new.previous_status = m.current_status]_vars

\* C18 (as stated): status changes of two actors on the same machine
\* serialize: of two records of a machine written one after the other by
\* different actors the later one's previous_status is the earlier one's
\* status, and once no status change is under way the machine carries the
\* status of its newest record.
C18_ConcurrentStatusChangesSerialize ==
  \A h1, h2 \in status_history :
    ( /\ h1.machine_id = h2.machine_id
      /\ h1.changed_by # h2.changed_by
      /\ h1.changed_at < h2.changed_at
      /\ ~ \E h \in status_history :
             /\ h.machine_id = h1.machine_id
             /\ h1.changed_at < h.changed_at
             /\ h.changed_at < h2.changed_at )
    => /\ h2.previous_status = h1.status
       /\ ( /\ \A u \in Users : session[u].pc = "idle"
            /\ h2 = NewestRecord(h2.machine_id) )
          => \A m \in machines :
               m.id = h2.machine_id => m.current_status = h2.status

\* C19 (as stated): a status change is all-or-nothing: when the machine
\* update that ends it is rejected, the history record written for it is
\* not kept either.
C19_StatusChangeAllOrNothing ==
  [][\A u \in Users :
       (session[u].pc = "inserted" /\ session'[u].pc = "idle" /\ ~ last'.ok)
       => ~ \E h \in status_history' :
              /\ h.machine_id = session[u].machine_id
              /\ h.changed_by = u
              /\ h.status = session[u].status
              /\ h.previous_status = session[u].previous_status]_vars

\* C20 (as stated): no identity that is not admin sets or changes a profile's
\* role: every profile that comes to carry role admin or team_leader, at its
\* creation or by an update, was written by a request of an identity that
\* was admin when it sent the request.
C20_RolesAssignedByAdminOnly ==
  [][\A p \in profiles' :
       (p.role \in {"admin", "team_leader"} /\ p \notin profiles)
         => IsRole(last'.uid, "admin")]_vars

\* C21 (as stated): on the user-management page, whenever the signed-in
\* identity's role is team_leader and no loadUsers is in flight, the listed
\* users are operator-role profiles only, whichever came first, the mount of
\* the page or the profile; and the list an admin's loadUsers returns is all
\* profiles.
C21_UserListScopedByRole ==
  /\ \A u \in Users :
       ( /\ "UserManagement" \in client[u].mounted
         /\ client[u].profile = "team_leader"
         /\ \A i \in DOMAIN client[u].inflight :
              client[u].inflight[i].page # "UserManagement" )
       => \A i \in DOMAIN client[u].users : client[u].users[i].role = "operator"
  /\ ( /\ last.op = "UserManagement.loadUsers"
       /\ client[last.uid].profile = "admin" )
     => Range(last.rows) = profiles

\* C22 (as stated): the overview converges on the datastore: with the page
\* mounted, no event waiting and no loadMachines in flight, the machine list
\* shown is the machine rows the datastore shows that identity, whatever the
\* order the responses arrived in.
C22_OverviewConvergesOnDatastore ==
  \A u \in Users :
    ( /\ "MachineOverview" \in client[u].mounted
      /\ client[u].events = 0
      /\ \A i \in DOMAIN client[u].inflight :
           client[u].inflight[i].page # "MachineOverview" )
    => client[u].machines = LoadMachinesRows(u)

StatusTypeWrites ==
  {"status_types.insert", "status_types.update", "status_types.rename",
   "status_types.delete", "StatusTypeManagement.handleDelete"}

\* C24: renaming (recolouring), deactivating, reactivating or deleting a
\* status type, and creating one, leaves every status_history record, its
\* status and previous_status strings included, and every machine's
\* current_status as they were.
C24_StatusTypeWritesKeepStatusStrings ==
  [][last'.op \in StatusTypeWrites =>
       /\ status_history' = status_history
       /\ machines' = machines]_vars

\* C24, its case: the status type whose name a history record and the
\* machine's current_status carry has been renamed.
C24_Witness ==
  /\ last.op = "status_types.rename"
  /\ last.ok
  /\ last.name = "Calibration"
  /\ ~ \E st \in status_types : st.name = "Running"
  /\ \E h \in status_history : h.status = "Running" \/ h.previous_status = "Running"
  /\ \E m \in machines : m.current_status = "Running"

\* C25 (as stated): when an admin changes another user's role through
\* UserManagement.handleRoleChange the update is accepted and the target
\* profile carries the new role; when the page's role is team_leader
\* handleRoleChange sends no request and writes nothing.
C25_AdminChangesRoles ==
  [][last'.op = "UserManagement.handleRoleChange" =>
       /\ ( /\ client[last'.uid].profile = "admin"
            /\ IsRole(last'.uid, "admin")
            /\ last'.id # last'.uid
            /\ \E p \in profiles : p.id = last'.id /\ p.role # last'.role )
          => /\ last'.ok
             /\ \E p \in profiles' : p.id = last'.id /\ p.role = last'.role
       /\ client[last'.uid].profile = "team_leader"
          => /\ ~ last'.requested
             /\ profiles' = profiles]_vars

C27_HistoryPageShowsScopeOnly ==
  \A u \in Users :
    ( /\ "HistoryPage" \in client[u].mounted
      /\ client[u].profile \in {"operator", "team_leader"}
      /\ \A i \in DOMAIN client[u].inflight :
           client[u].inflight[i].page # "HistoryPage" )
    => \A i \in DOMAIN client[u].history :
         LET h == client[u].history[i]
         IN  IF client[u].profile = "operator"
               THEN Assigned(u, h.machine_id)
               ELSE \E m \in machines : /\ m.id = h.machine_id
                                        /\ Leads(u, m.department_id)

\* C28 (as stated): handleAddUser for a not yet registered identity has no
\* partial effect: afterwards either the identity exists together with
\* exactly one profile, carrying the chosen role, or neither the identity nor
\* a profile exists; a rejected profile insert never leaves an identity
\* without a profile.
C28_AddUserIsAllOrNothing ==
  [][ ( /\ last'.op = "UserManagement.handleAddUser"
        /\ last'.id \notin auth_users )
      => \/ /\ last'.id \in auth_users'
            /\ {p.role : p \in {q \in profiles' : q.id = last'.id}} = {last'.role}
         \/ /\ last'.id \notin auth_users'
            /\ ~ \E p \in profiles' : p.id = last'.id ]_vars

\* C29 (as stated): a non-admin never moves a machine into a department it
\* does not lead: every accepted machine update by a team_leader or operator
\* leaves the machine's department unchanged or sets it to a department the
\* actor leads.
C29_NonAdminMovesOnlyIntoLedDepartment ==
  [][ ( /\ last'.op = "machines.update"
        /\ last'.ok
        /\ \/ IsRole(last'.uid, "team_leader")
           \/ IsRole(last'.uid, "operator") )
      => \A m \in machines : m.id = last'.machine_id =>
           \/ last'.department_id = m.department_id
           \/ Leads(last'.uid, last'.department_id) ]_vars

\* The foreign keys of machines, department_leaders, machine_operators and
\* status_history, as a condition on the stored rows.
ReferencesExist ==
  /\ \A m \in machines :
       \/ m.department_id = NULL
       \/ \E d \in departments : d.id = m.department_id
  /\ \A dl \in department_leaders :
       /\ \E d \in departments : d.id = dl.department_id
       /\ \E p \in profiles : p.id = dl.user_id
  /\ \A mo \in machine_operators : \E m \in machines : m.id = mo.machine_id
  /\ \A h \in status_history : \E m \in machines : m.id = h.machine_id

\* An accepted insert adds one (department, identity) or (machine, identity)
\* pair that was not stored, and an accepted update of an assignment keeps
\* the number of stored pairs: no statement is accepted that would store a
\* pair a second time.
PairsStoredOnce ==
  /\ (last'.op = "department_leaders.insert" /\ last'.ok)
       => Cardinality(department_leaders') = Cardinality(department_leaders) + 1
  /\ (last'.op = "department_leaders.update" /\ last'.ok)
       => Cardinality(department_leaders') = Cardinality(department_leaders)
  /\ (last'.op = "machine_operators.insert" /\ last'.ok)
       => Cardinality(machine_operators') = Cardinality(machine_operators) + 1

\* C30: referential integrity in every reachable state: every machine's
\* department is null or an existing department, every department-leader
\* assignment names an existing department and profile, every operator
\* assignment and every history record names an existing machine, and no
\* (department, identity) or (machine, identity) pair is stored twice.
C30_ReferentialIntegrity ==
  /\ []ReferencesExist
  /\ [][PairsStoredOnce]_vars

\* C30, its case: the admin's delete of a department was refused because a
\* machine is still in it, while the department has a leader and the machine
\* an operator assignment and a history record.
C30_Witness ==
  /\ last.op = "departments.delete"
  /\ IsRole(last.uid, "admin")
  /\ ~ last.ok
  /\ \E m \in machines :
       /\ m.department_id = last.department_id
       /\ \E mo \in machine_operators : mo.machine_id = m.id
       /\ \E h \in status_history : h.machine_id = m.id
  /\ \E dl \in department_leaders : dl.department_id = last.department_id

====
